---- MODULE Spec2Model ----
(***************************************************************************)
(* vid2txt: a command-line orchestrator that turns a video (URL or local   *)
(* file) into a transcript by chaining yt-dlp / ffmpeg / whisper-cli, with *)
(* a cached catalog of whisper.cpp model files.                             *)
(*                                                                         *)
(* Strings are sequences of one-character strings, so that prefixes,       *)
(* regular expressions, case folding and extensions are computed as the    *)
(* code computes them.                                                      *)
(***************************************************************************)
EXTENDS Integers, Sequences, FiniteSets, TLC

(***************************************************************************)
(* Characters and strings                                                   *)
(***************************************************************************)

Range(f) == { f[i] : i \in DOMAIN f }

\* Printable ASCII in code-point order: 32 (space) to 95, then 97 to 126.
AsciiLow ==
 <<
    " ", "!", "\"", "#", "$", "%", "&", "'", "(", ")", "*", "+", ",", "-", ".", "/",
    "0", "1", "2", "3", "4", "5", "6", "7", "8", "9", ":", ";", "<", "=", ">", "?",
    "@", "A", "B", "C", "D", "E", "F", "G", "H", "I", "J", "K", "L", "M", "N", "O",
    "P", "Q", "R", "S", "T", "U", "V", "W", "X", "Y", "Z", "[", "\\", "]", "^", "_"
 >>

AsciiHigh ==
 <<
    "a", "b", "c", "d", "e", "f", "g", "h", "i", "j", "k", "l", "m", "n", "o", "p",
    "q", "r", "s", "t", "u", "v", "w", "x", "y", "z", "{", "|", "}", "~"
 >>

LowerLetters == << "a", "b", "c", "d", "e", "f", "g", "h", "i", "j", "k", "l", "m", "n", "o", "p", "q", "r", "s", "t", "u", "v", "w", "x", "y", "z" >>

UpperLetters == << "A", "B", "C", "D", "E", "F", "G", "H", "I", "J", "K", "L", "M", "N", "O", "P", "Q", "R", "S", "T", "U", "V", "W", "X", "Y", "Z" >>

Digits == { "0", "1", "2", "3", "4", "5", "6", "7", "8", "9" }

\* The code point of every character, tabulated once.
CodePoints ==
    [c \in Range(AsciiLow) \cup Range(AsciiHigh) \cup {"\t", "\n"} |->
        IF c = "\t" THEN 9
        ELSE IF c = "\n" THEN 10
        ELSE IF c \in Range(AsciiLow)
             THEN 31 + (CHOOSE i \in DOMAIN AsciiLow : AsciiLow[i] = c)
             ELSE 96 + (CHOOSE i \in DOMAIN AsciiHigh : AsciiHigh[i] = c)]

\* u8::cmp / char::cmp: the code point of a character.
Ord(c) == CodePoints[c]

IsAsciiAlphabetic(c) == c \in Range(LowerLetters) \cup Range(UpperLetters)

IsDigit(c) == c \in Digits

\* char::is_whitespace, and \s of the regex crate, on the characters used here.
IsWhitespace(c) == c \in {" ", "\t", "\n"}

\* The lowercase form of every character, tabulated once.
LowerCase ==
    [c \in Range(AsciiLow) \cup Range(AsciiHigh) \cup {"\t", "\n"} |->
        IF c \in Range(UpperLetters)
        THEN LowerLetters[CHOOSE i \in DOMAIN UpperLetters : UpperLetters[i] = c]
        ELSE c]

\* char::to_ascii_lowercase / to_lowercase on ASCII.
LowerChar(c) == LowerCase[c]

\* str::to_lowercase / str::to_ascii_lowercase.
ToLower(s) == [i \in 1..Len(s) |-> LowerChar(s[i])]

\* str::starts_with.
StartsWith(s, p) == Len(s) >= Len(p) /\ SubSeq(s, 1, Len(p)) = p

\* str::ends_with.
EndsWith(s, p) == Len(s) >= Len(p) /\ SubSeq(s, Len(s) - Len(p) + 1, Len(s)) = p

\* str::contains.
Contains(s, p) ==
    \E i \in 1..(Len(s) + 1) : i + Len(p) - 1 <= Len(s) /\ SubSeq(s, i, i + Len(p) - 1) = p

\* str::trim: drops leading and trailing whitespace.
Trim(s) ==
    LET keep == { i \in 1..Len(s) : ~IsWhitespace(s[i]) }
    IN  IF keep = {} THEN << >>
        ELSE SubSeq(s, CHOOSE i \in keep : \A j \in keep : i <= j,
                       CHOOSE i \in keep : \A j \in keep : j <= i)

\* Ord on strings: str::cmp (lexicographic by byte).
RECURSIVE StrLess(_, _)
StrLess(a, b) ==
    IF b = << >> THEN FALSE
    ELSE IF a = << >> THEN TRUE
    ELSE IF Ord(Head(a)) # Ord(Head(b)) THEN Ord(Head(a)) < Ord(Head(b))
    ELSE StrLess(Tail(a), Tail(b))

(***************************************************************************)
(* Locator classifier: app.rs, is_probable_url                              *)
(***************************************************************************)

\* The bounds of the TLD repetition {2,63} of the bare-domain regex.
TldMin == 2

TldMax == 63

\* starts_with_dot: the four relative prefixes
StartsWithDot(s) ==
    \/ StartsWith(s, <<".", "\\">>)
    \/ StartsWith(s, <<".", "/">>)
    \/ StartsWith(s, <<".", ".", "\\">>)
    \/ StartsWith(s, <<".", ".", "/">>)

\* Variant: a leading double slash is not taken for an absolute path.
LooksLikePosixAbsSingleSlash(s) ==
    \/ StartsWith(s, <<"/">>) /\ ~StartsWith(s, <<"/", "/">>)
    \/ StartsWith(s, <<"~", "/">>)

\* looks_like_posix_abs: a leading slash, or tilde slash
LooksLikePosixAbs(s) == StartsWith(s, <<"/">>) \/ StartsWith(s, <<"~", "/">>)

\* Windows drive: a letter, a colon, then a backslash or a slash
IsWindowsDrive(s) ==
    /\ Len(s) >= 3
    /\ s[2] = ":"
    /\ s[3] \in {"\\", "/"}
    /\ IsAsciiAlphabetic(s[1])

\* UNC path: two leading backslashes
IsUnc(s) == StartsWith(s, <<"\\", "\\">>)

\* s.to_ascii_lowercase().starts_with(file://)
IsFileScheme(s) == StartsWith(ToLower(s), <<"f", "i", "l", "e", ":", "/", "/">>)

\* (?i)^(?:https?|ftp)://
HasKnownScheme(s) ==
    \/ StartsWith(ToLower(s), <<"h", "t", "t", "p", ":", "/", "/">>)
    \/ StartsWith(ToLower(s), <<"h", "t", "t", "p", "s", ":", "/", "/">>)
    \/ StartsWith(ToLower(s), <<"f", "t", "p", ":", "/", "/">>)

\* Protocol-relative: s.starts_with(//)
IsProtocolRelative(s) == StartsWith(s, <<"/", "/">>)

\* [A-Za-z0-9-]
IsLabelChar(c) == IsAsciiAlphabetic(c) \/ IsDigit(c) \/ c = "-"

\* (?:[A-Za-z0-9-]+\.)+ matched against the whole of t: one or more non-empty
\* labels, each followed by a dot.
RECURSIVE MatchesLabels(_)
MatchesLabels(t) ==
    \E k \in 2..Len(t) :
        /\ t[k] = "."
        /\ \A i \in 1..(k - 1) : IsLabelChar(t[i])
        /\ (k = Len(t) \/ MatchesLabels(SubSeq(t, k + 1, Len(t))))

\* [A-Za-z]{2,63} matched against the whole of t.
MatchesTld(t) ==
    /\ Len(t) >= TldMin
    /\ Len(t) <= TldMax
    /\ \A i \in 1..Len(t) : IsAsciiAlphabetic(t[i])

\* (?:[/:?#][^\s]*)? matched against the whole of t.
MatchesTail(t) ==
    \/ t = << >>
    \/ /\ t[1] \in {"/", ":", "?", "#"}
       /\ \A i \in 2..Len(t) : ~IsWhitespace(t[i])

\* ^(?:[A-Za-z0-9-]+\.)+[A-Za-z]{2,63}(?:[/:?#][^\s]*)?$
BareDomain(s) ==
    \E d \in 1..Len(s) : \E e \in d..Len(s) :
        /\ MatchesLabels(SubSeq(s, 1, d))
        /\ MatchesTld(SubSeq(s, d + 1, e))
        /\ MatchesTail(SubSeq(s, e + 1, Len(s)))

\* The early "return false" tests, in the order of the code.
RejectedAsLocal(s) ==
    \/ StartsWithDot(s)
    \/ LooksLikePosixAbs(s)
    \/ IsWindowsDrive(s)
    \/ IsUnc(s)
    \/ IsFileScheme(s)

\* is_probable_url(s): true when s is handed to yt-dlp.
IsProbableUrl(input) ==
    LET s == Trim(input)
    IN  IF s = << >> THEN FALSE
        ELSE IF RejectedAsLocal(s) THEN FALSE
        ELSE IF HasKnownScheme(s) THEN TRUE
        ELSE IF IsProtocolRelative(s) THEN TRUE
        ELSE BareDomain(s)

\* The branch taken by run(): yt-dlp for a URL, ffmpeg for a local file.
Classify(input) == IF IsProbableUrl(input) THEN "RemoteLocator" ELSE "LocalPath"

(***************************************************************************)
(* Paths and the filesystem                                                 *)
(*                                                                         *)
(* A path is a directory and a final segment: [dir, name].  The set of     *)
(* existing paths stands for the filesystem (Path::exists).                 *)
(***************************************************************************)

Some(x) == [some |-> TRUE, val |-> x]

None == [some |-> FALSE]

Dirs == {"cwd", "root", "models", "out", "tmp"}

MkPath(d, n) == [dir |-> d, name |-> n]

\* Path::file_name: the final segment, none when it is dot-dot.
FileName(p) == IF p.name = <<".", ".">> THEN None ELSE Some(p.name)

\* Variant: a name that ends in a dot is taken to have no extension.
ExtensionNonEmpty(n) ==
    LET dots == { i \in 1..Len(n) : n[i] = "." }
        last == CHOOSE i \in dots : \A j \in dots : j <= i
    IN  IF n = <<".", ".">> \/ dots = {} THEN None
        ELSE IF last = 1 \/ last = Len(n) THEN None
        ELSE Some(SubSeq(n, last + 1, Len(n)))

\* Path::extension of a file name: the part after the last dot, none when the
\* name has no dot, or its only dot is the leading one, or the name is dot-dot.
Extension(n) ==
    LET dots == { i \in 1..Len(n) : n[i] = "." }
        last == CHOOSE i \in dots : \A j \in dots : j <= i
    IN  IF n = <<".", ".">> \/ dots = {} THEN None
        ELSE IF last = 1 THEN None
        ELSE Some(SubSeq(n, last + 1, Len(n)))

\* Path::file_stem of a file name.
FileStem(n) ==
    LET dots == { i \in 1..Len(n) : n[i] = "." }
        last == CHOOSE i \in dots : \A j \in dots : j <= i
    IN  IF n = <<".", ".">> \/ dots = {} \/ last = 1 THEN n
        ELSE SubSeq(n, 1, last - 1)

(***************************************************************************)
(* Extension inference: app.rs, try_infer_with_exts                         *)
(***************************************************************************)

\* Variant: mkv is probed before mp4.
ExtsMkvFirst ==
    << <<"m", "k", "v">>, <<"m", "p", "4">>, <<"w", "e", "b", "m">>, <<"m", "o", "v">>,
       <<"m", "4", "a">>, <<"m", "p", "3">>, <<"w", "a", "v">>, <<"f", "l", "a", "c">>,
       <<"a", "v", "i">>, <<"m", "4", "v">>, <<"a", "a", "c">>, <<"o", "p", "u", "s">> >>

\* let exts = [...]
Exts ==
    << <<"m", "p", "4">>, <<"m", "k", "v">>, <<"w", "e", "b", "m">>, <<"m", "o", "v">>,
       <<"m", "4", "a">>, <<"m", "p", "3">>, <<"w", "a", "v">>, <<"f", "l", "a", "c">>,
       <<"a", "v", "i">>, <<"m", "4", "v">>, <<"a", "a", "c">>, <<"o", "p", "u", "s">> >>

\* parent.join(format!({stem}.{ext}))
WithExt(parent, stem, ext) == MkPath(parent, stem \o <<".">> \o ext)

\* for ext in exts { if p.exists() { return Some(p) } } None
RECURSIVE ProbeExts(_, _, _, _)
ProbeExts(parent, stem, files, i) ==
    IF i > Len(Exts) THEN None
    ELSE IF WithExt(parent, stem, Exts[i]) \in files
         THEN Some(WithExt(parent, stem, Exts[i]))
         ELSE ProbeExts(parent, stem, files, i + 1)

\* try_infer_with_exts(candidate), files being the paths that exist.
TryInferWithExts(candidate, files) ==
    IF candidate \in files THEN Some(candidate)
    ELSE LET parent == candidate.dir
             stem_os == FileName(candidate)
         IN  IF ~stem_os.some THEN None
             ELSE IF Extension(stem_os.val).some THEN None
             ELSE ProbeExts(parent, stem_os.val, files, 1)

(***************************************************************************)
(* Model catalog: hf.rs                                                     *)
(***************************************************************************)

Hour == 60 * 60

\* pub const CACHE_TTL: Duration = Duration::from_secs(24 * 60 * 60)
CACHE_TTL == 24 * 60 * 60

\* struct HfFile { rfilename, size }
HfFile(n, sz) == [rfilename |-> n, size |-> sz]

GGML == <<"g", "g", "m", "l", "-">>

DotBin == <<".", "b", "i", "n">>

DotGguf == <<".", "g", "g", "u", "f">>

\* Regex ^ggml-.*\.(bin|gguf)$ : the prefix, any characters but a line break,
\* then one of the two suffixes, without overlap.
MatchesModelName(n) ==
    /\ StartsWith(n, GGML)
    /\ \E suf \in {DotBin, DotGguf} :
          /\ EndsWith(n, suf)
          /\ Len(n) >= Len(GGML) + Len(suf)
          /\ \A i \in (Len(GGML) + 1)..(Len(n) - Len(suf)) : n[i] # "\n"

\* is_quantized_name(name), name already lowercased by the callers.
IsQuantizedName(name) ==
    \/ Contains(name, <<"-", "q">>)
    \/ Contains(name, <<".", "q">>)
    \/ Contains(name, <<"-", "q", "5">>)
    \/ Contains(name, <<"-", "q", "8">>)

\* Variant: quantized entries sort last whatever the preference.
ScoreQuantizedLast(f, prefer_quantized) ==
    IF IsQuantizedName(ToLower(f.rfilename)) THEN 1 ELSE 0

\* a_score: if prefer_quantized { !aq } else { aq } as u8
Score(f, prefer_quantized) ==
    LET q == IsQuantizedName(ToLower(f.rfilename))
    IN  IF prefer_quantized THEN (IF q THEN 0 ELSE 1) ELSE (IF q THEN 1 ELSE 0)

\* The comparator of sort_by is Less: a_score.cmp(&b_score).then_with(|| an.cmp(&bn))
SortsBefore(a, b, prefer_quantized) ==
    \/ Score(a, prefer_quantized) < Score(b, prefer_quantized)
    \/ /\ Score(a, prefer_quantized) = Score(b, prefer_quantized)
       /\ StrLess(ToLower(a.rfilename), ToLower(b.rfilename))

\* Insert x in front of the first element that sorts strictly after it: equal
\* elements keep their order (Vec::sort_by is stable).
RECURSIVE InsertSorted(_, _, _)
InsertSorted(x, v, prefer_quantized) ==
    IF v = << >> THEN <<x>>
    ELSE IF SortsBefore(x, Head(v), prefer_quantized) THEN <<x>> \o v
    ELSE <<Head(v)>> \o InsertSorted(x, Tail(v), prefer_quantized)

RECURSIVE StableSort(_, _)
StableSort(v, prefer_quantized) ==
    IF v = << >> THEN << >>
    ELSE InsertSorted(v[Len(v)], StableSort(SubSeq(v, 1, Len(v) - 1), prefer_quantized),
                      prefer_quantized)

\* files.into_iter().filter(|f| re.is_match(&f.rfilename)).collect()
FilterModels(files) == SelectSeq(files, LAMBDA f : MatchesModelName(f.rfilename))

\* filter_and_sort_files(files, prefer_quantized)
FilterAndSortFiles(files, prefer_quantized) ==
    StableSort(FilterModels(files), prefer_quantized)

\* modified.elapsed().unwrap_or_else(|_| CACHE_TTL * 2): elapsed() fails when the
\* modification time lies in the future.
Elapsed(mtime, now) == IF now >= mtime THEN now - mtime ELSE CACHE_TTL * 2

\* Variant: a cache file exactly CACHE_TTL old still counts as fresh.
CacheFreshInclusive(mtime, now) == Elapsed(mtime, now) <= CACHE_TTL

\* modified.elapsed()... < CACHE_TTL
CacheFresh(mtime, now) == Elapsed(mtime, now) < CACHE_TTL

\* The cache file: none when absent, else its modification time and its content,
\* which is none when the file cannot be read or does not parse as an HfModel.
CacheFile(mtime, content) == Some([mtime |-> mtime, content |-> content])

\* Lines 29-41: the catalog served from the cache file, or none to go on to the
\* network.
CacheLookup(cache, now, refresh, prefer_quantized) ==
    IF refresh THEN None
    ELSE IF ~cache.some THEN None
    ELSE IF ~CacheFresh(cache.val.mtime, now) THEN None
    ELSE IF ~cache.val.content.some THEN None
    ELSE Some(FilterAndSortFiles(cache.val.content.val, prefer_quantized))

Ok(x) == [ok |-> TRUE, val |-> x]

Err(e) == [ok |-> FALSE, err |-> e]

\* Variant: a failed fetch falls back to whatever the cache file holds.
OnFetchFailureServesCache(cache, prefer_quantized, net) ==
    IF cache.some /\ cache.val.content.some
    THEN Ok(FilterAndSortFiles(cache.val.content.val, prefer_quantized))
    ELSE Err("CatalogUnavailable")

\* reqwest::blocking::get(HF_REPO_API)?.error_for_status()? and resp.json()? :
\* a failed fetch is returned to the caller as it is.
OnFetchFailure(cache, prefer_quantized, net) == Err("CatalogUnavailable")

\* fs::create_dir_all(parent)? and fs::write(&path, ...)? : a failed write of the
\* cache file is returned to the caller as it is.
OnPersistFailure(siblings, prefer_quantized, persist) == Err("CatalogUnavailable")

\* What a call of fs::create_dir_all + fs::write can do to the cache file.
PersistOutcomes == {"ok", "mkdir_failed", "write_failed", "write_truncated"}

\* The cache file after the persist step: rewritten at `now`, left alone, or
\* left truncated by a write that failed part-way.
CacheAfterPersist(cache, now, siblings, persist) ==
    CASE persist = "ok" -> CacheFile(now, Some(siblings))
      [] persist = "write_truncated" -> CacheFile(now, None)
      [] OTHER -> cache

\* What the GET of HF_REPO_API can end in.
NetOutcomes == {"ok", "transport_error", "http_status", "bad_json"}

(***************************************************************************)
(* Model resolver: models.rs                                                *)
(***************************************************************************)

\* PathBuf::from(text) for a single-segment name: absolute when it starts with
\* a slash (then it lies in the root directory), else relative to the cwd.
IsAbsolute(s) == Len(s) >= 1 /\ s[1] = "/"

PathFrom(s) == IF IsAbsolute(s) THEN MkPath("root", Tail(s)) ELSE MkPath("cwd", s)

\* dir.join(text): an absolute argument replaces the directory.
Join(d, s) == IF IsAbsolute(s) THEN PathFrom(s) ELSE MkPath(d, s)

\* Variant: the penalty falls on the entries that match the preference.
PrefPenaltyInverted(f, prefer_quantized) ==
    IF prefer_quantized = IsQuantizedName(ToLower(f.rfilename)) THEN 1 ELSE 0

\* pref_penalty: if prefer_quantized ^ is_q { 1 } else { 0 }
PrefPenalty(f, prefer_quantized) ==
    IF prefer_quantized # IsQuantizedName(ToLower(f.rfilename)) THEN 1 ELSE 0

\* The key (pref_penalty, name) of a is strictly below that of b.
KeyLess(a, b, prefer_quantized) ==
    \/ PrefPenalty(a, prefer_quantized) < PrefPenalty(b, prefer_quantized)
    \/ /\ PrefPenalty(a, prefer_quantized) = PrefPenalty(b, prefer_quantized)
       /\ StrLess(ToLower(a.rfilename), ToLower(b.rfilename))

\* Iterator::min_by_key: the first of the minimal elements.
RECURSIVE MinByKey(_, _, _)
MinByKey(best, rest, prefer_quantized) ==
    IF rest = << >> THEN best
    ELSE MinByKey(IF KeyLess(Head(rest), best, prefer_quantized) THEN Head(rest) ELSE best,
                  Tail(rest), prefer_quantized)

\* Variant: the alias is compared as typed, without lowercasing it.
BestMatchCaseSensitive(user_input, files, prefer_quantized) ==
    LET hits == SelectSeq(files, LAMBDA f : Contains(ToLower(f.rfilename), user_input))
    IN  IF hits = << >> THEN None
        ELSE Some(MinByKey(Head(hits), Tail(hits), prefer_quantized).rfilename)

\* files.iter().filter(contains needle).min_by_key(..).map(|f| f.rfilename.clone())
BestMatch(user_input, files, prefer_quantized) ==
    LET needle == ToLower(user_input)
        hits == SelectSeq(files, LAMBDA f : Contains(ToLower(f.rfilename), needle))
    IN  IF hits = << >> THEN None
        ELSE Some(MinByKey(Head(hits), Tail(hits), prefer_quantized).rfilename)

\* What the download of a model file can end in, once the destination is known
\* to be missing: create_dir_all fails, the GET fails, File::create fails, the
\* copy loop fails part-way (the truncated file stays), or all is written.
DownloadOutcomes == {"ok", "mkdir_failed", "http_failed", "create_failed", "interrupted"}

\* sanitize_filename::sanitize: drops the characters no filename may hold.
Sanitize(s) ==
    SelectSeq(s, LAMBDA c : c \notin {"/", "?", "<", ">", "\\", ":", "*", "|", "\""})

(***************************************************************************)
(* State                                                                    *)
(***************************************************************************)

VARIABLES
    now,         \* the clock, in seconds
    cache,       \* the cache file <cache-dir>/vid2txt/models.json
    fs,          \* the filesystem: files, directories, truncated model files
    cat,         \* the last call of fetch_hf_files_cached and what it returned
    res,         \* the last call of resolve_or_download_model and what it returned
    calls,       \* how many component calls were made (component specifications)
    pc,          \* where run() stands
    args,        \* the parsed command line
    base_name,   \* let base_name
    log,         \* the statements run() has executed, in order, with their outcomes
    result,      \* what run() returned, once pc = "done"
    said,        \* the final message printed by run()
    cls,         \* one application of is_probable_url: input, verdict
    inf,         \* one application of try_infer_with_exts: files, candidate, result
    srt,         \* one application of filter_and_sort_files and of the alias match
    hist         \* the calls of resolve_or_download_model so far, oldest first

vars == <<now, cache, fs, cat, res, calls, pc, args, base_name, log, result, said,
          cls, inf, srt, hist>>

envVars == <<now, cache, fs>>

runVars == <<pc, args, base_name, log, result, said>>

\* What run() and the catalog never touch.
pureVars == <<cls, inf, srt, hist>>

\* Names used by the catalogs below.
NameBase == GGML \o <<"b", "a", "s", "e">> \o DotBin

NameBaseQ5 == GGML \o <<"b", "a", "s", "e", "-", "q", "5">> \o DotBin

NameNotes == <<"n", "o", "t", "e", "s", ".", "t", "x", "t">>

NameLarge == GGML \o <<"l", "a", "r", "g", "e">> \o DotGguf

NameTiny == GGML \o <<"t", "i", "n", "y">> \o DotBin

\* Two answers of the remote catalog endpoint (the siblings, as parsed).
ListingA == <<HfFile(NameBase, Some(3)), HfFile(NameBaseQ5, Some(1)),
              HfFile(NameNotes, None), HfFile(NameLarge, Some(9))>>

ListingB == <<HfFile(NameTiny, Some(2)), HfFile(NameBase, Some(3))>>

Listings == {ListingA, ListingB}

\* The instants at which the clock is read: around the 24 hour window.
Instants == {0, 23 * Hour, 24 * Hour - 1, 24 * Hour, 25 * Hour}

NoCat ==
    [called |-> FALSE, refresh |-> FALSE, pq |-> FALSE, req |-> None, at |-> 0,
     fetches |-> 0, net |-> "none", persist |-> "none", result |-> Err("none")]

CatCall(refresh, pq, req, at, fetches, net, persist, r) ==
    [called |-> TRUE, refresh |-> refresh, pq |-> pq, req |-> req, at |-> at,
     fetches |-> fetches, net |-> net, persist |-> persist, result |-> r]

NoRes ==
    [called |-> FALSE, input |-> << >>, downloads |-> 0, outcome |-> "none",
     result |-> Err("none")]

ResCall(input, downloads, outcome, r) ==
    [called |-> TRUE, input |-> input, downloads |-> downloads, outcome |-> outcome,
     result |-> r]

Exists(p) == p \in fs.files \cup fs.dirs

IsFile(p) == p \in fs.files

(***************************************************************************)
(* Component operations on the state                                        *)
(***************************************************************************)

\* fetch_hf_files_cached(refresh, prefer_quantized): serve the cache file when
\* it is usable, else GET the listing, write it to the cache file and return it.
FetchHfFilesCached(refresh, prefer_quantized) ==
    LET hit == CacheLookup(cache, now, refresh, prefer_quantized)
    IN  IF hit.some
        THEN /\ cat' = CatCall(refresh, prefer_quantized, cache, now, 0, "none", "none",
                               Ok(hit.val))
             /\ cache' = cache
        ELSE \E net \in NetOutcomes :
                IF net # "ok"
                THEN /\ cat' = CatCall(refresh, prefer_quantized, cache, now, 1, net, "none",
                                       OnFetchFailure(cache, prefer_quantized, net))
                     /\ cache' = cache
                ELSE \E siblings \in Listings, persist \in PersistOutcomes :
                        /\ cache' = CacheAfterPersist(cache, now, siblings, persist)
                        /\ cat' = CatCall(refresh, prefer_quantized, cache, now, 1, net,
                                          persist,
                                          IF persist = "ok"
                                          THEN Ok(FilterAndSortFiles(siblings, prefer_quantized))
                                          ELSE OnPersistFailure(siblings, prefer_quantized,
                                                                persist))

\* Variant: the file is fetched whether or not the destination exists.
DownloadModelAlways(filename, user_input) ==
    LET dest == MkPath("models", filename)
    IN  \E out \in DownloadOutcomes :
           /\ fs' = CASE out = "ok" ->
                           [fs EXCEPT !.files = @ \cup {dest},
                                      !.partial = @ \ {dest},
                                      !.dirs = @ \cup {MkPath("models", << >>)}]
                      [] out = "interrupted" ->
                           [fs EXCEPT !.files = @ \cup {dest},
                                      !.partial = @ \cup {dest},
                                      !.dirs = @ \cup {MkPath("models", << >>)}]
                      [] out = "create_failed" ->
                           [fs EXCEPT !.dirs = @ \cup {MkPath("models", << >>)}]
                      [] out = "http_failed" ->
                           [fs EXCEPT !.dirs = @ \cup {MkPath("models", << >>)}]
                      [] OTHER -> fs
           /\ res' = ResCall(user_input, IF out = "mkdir_failed" THEN 0 ELSE 1, out,
                             IF out = "ok" THEN Ok(dest) ELSE Err("DownloadError"))

\* Variant: a download that breaks off removes what it has written.
DownloadModelCleansUp(filename, user_input) ==
    LET dest == MkPath("models", filename)
    IN  IF Exists(dest)
        THEN /\ fs' = fs
             /\ res' = ResCall(user_input, 0, "none", Ok(dest))
        ELSE \E out \in DownloadOutcomes :
                /\ fs' = CASE out = "ok" ->
                                [fs EXCEPT !.files = @ \cup {dest},
                                           !.dirs = @ \cup {MkPath("models", << >>)}]
                           [] out = "mkdir_failed" -> fs
                           [] OTHER -> [fs EXCEPT !.dirs = @ \cup {MkPath("models", << >>)}]
                /\ res' = ResCall(user_input, IF out = "mkdir_failed" THEN 0 ELSE 1, out,
                                  IF out = "ok" THEN Ok(dest) ELSE Err("DownloadError"))

\* download_model_if_missing(filename, models_dir): nothing to do when the
\* destination exists; else stream the remote file into it.
DownloadModelIfMissing(filename, user_input) ==
    LET dest == MkPath("models", filename)
    IN  IF Exists(dest)
        THEN /\ fs' = fs
             /\ res' = ResCall(user_input, 0, "none", Ok(dest))
        ELSE \E out \in DownloadOutcomes :
                /\ fs' = CASE out = "ok" ->
                                [fs EXCEPT !.files = @ \cup {dest},
                                           !.dirs = @ \cup {MkPath("models", << >>)}]
                           [] out = "interrupted" ->
                                [fs EXCEPT !.files = @ \cup {dest},
                                           !.partial = @ \cup {dest},
                                           !.dirs = @ \cup {MkPath("models", << >>)}]
                           [] out \in {"http_failed", "create_failed"} ->
                                [fs EXCEPT !.dirs = @ \cup {MkPath("models", << >>)}]
                           [] OTHER -> fs
                /\ res' = ResCall(user_input, IF out = "mkdir_failed" THEN 0 ELSE 1, out,
                                  IF out = "ok" THEN Ok(dest) ELSE Err("DownloadError"))

\* Variant: the models directory is looked at before the path as given.
ResolveModelsDirFirst(user_input, files, prefer_quantized) ==
    LET path == PathFrom(user_input)
        candidate == Join("models", user_input)
        best == BestMatch(user_input, files, prefer_quantized)
    IN  IF Exists(candidate)
        THEN fs' = fs /\ res' = ResCall(user_input, 0, "none", Ok(candidate))
        ELSE IF Exists(path)
        THEN fs' = fs /\ res' = ResCall(user_input, 0, "none", Ok(path))
        ELSE IF ~best.some
        THEN fs' = fs /\ res' = ResCall(user_input, 0, "none", Err("ModelNotFound"))
        ELSE DownloadModelIfMissing(best.val, user_input)

\* resolve_or_download_model(user_input, models_dir, files, prefer_quantized)
ResolveOrDownloadModel(user_input, files, prefer_quantized) ==
    LET path == PathFrom(user_input)
        candidate == Join("models", user_input)
        best == BestMatch(user_input, files, prefer_quantized)
    IN  IF Exists(path)
        THEN fs' = fs /\ res' = ResCall(user_input, 0, "none", Ok(path))
        ELSE IF Exists(candidate)
        THEN fs' = fs /\ res' = ResCall(user_input, 0, "none", Ok(candidate))
        ELSE IF ~best.some
        THEN fs' = fs /\ res' = ResCall(user_input, 0, "none", Err("ModelNotFound"))
        ELSE DownloadModelIfMissing(best.val, user_input)

(***************************************************************************)
(* Pipeline orchestrator: app.rs, run                                       *)
(***************************************************************************)

\* The statement completed: go on to the next one.
Step(next) ==
    /\ pc' = next
    /\ log' = Append(log, [stage |-> pc, outcome |-> "ok"])
    /\ result' = result

\* The ? operator and return Err(..): run() returns the error at once.
Fail(outcome, e) ==
    /\ pc' = "done"
    /\ log' = Append(log, [stage |-> pc, outcome |-> outcome])
    /\ result' = Err(e)

\* return Ok(())
Finish ==
    /\ pc' = "done"
    /\ log' = Append(log, [stage |-> pc, outcome |-> "ok"])
    /\ result' = Ok("unit")

\* What run_cmd can end in: the tool cannot be spawned, or it exits.
ToolOutcomes == {"spawn_failed", "exit_nonzero", "exit_ok"}

\* ensure_in_path(ffmpeg)?
EnsureFfmpeg ==
    /\ pc = "ensure_ffmpeg"
    /\ \E found \in BOOLEAN :
          IF found THEN Step("ensure_whisper") ELSE Fail("not_found", "MissingDependency")
    /\ UNCHANGED <<envVars, cat, res, calls, args, base_name, said, pureVars>>

\* ensure_in_path(whisper-cli)?
EnsureWhisperCli ==
    /\ pc = "ensure_whisper"
    /\ \E found \in BOOLEAN :
          IF found THEN Step("models_dir") ELSE Fail("not_found", "MissingDependency")
    /\ UNCHANGED <<envVars, cat, res, calls, args, base_name, said, pureVars>>

\* let models_dir = whisper_models_dir()?; create_dir_all(&models_dir)?;
ModelsDir ==
    /\ pc = "models_dir"
    /\ \E made \in BOOLEAN :
          IF made
          THEN /\ fs' = [fs EXCEPT !.dirs = @ \cup {MkPath("models", << >>)}]
               /\ Step("catalog")
          ELSE /\ fs' = fs
               /\ Fail("mkdir_failed", "CreateDirFailed")
    /\ UNCHANGED <<now, cache, cat, res, calls, args, base_name, said, pureVars>>

\* let files = fetch_hf_files_cached(args.refresh_models, args.prefer_quantized)?;
FetchCatalog ==
    /\ pc = "catalog"
    /\ FetchHfFilesCached(args.refresh_models, args.prefer_quantized)
    /\ IF cat'.result.ok THEN Step("list_or_model")
       ELSE Fail("fetch_failed", cat'.result.err)
    /\ UNCHANGED <<now, fs, res, calls, args, base_name, said, pureVars>>

\* if args.list_models { ... return Ok(()) }
ListModels ==
    /\ pc = "list_or_model"
    /\ args.list_models
    /\ IF cat.result.val = << >>
       THEN Fail("empty", "NoModels") /\ said' = said
       ELSE Finish /\ said' = "listing"
    /\ UNCHANGED <<envVars, cat, res, calls, args, base_name, pureVars>>

\* if let Some(m) = args.model.clone() { resolve_or_download_model(&m, ...)? }
ResolveGivenModel ==
    /\ pc = "list_or_model"
    /\ ~args.list_models
    /\ args.model.some
    /\ ResolveOrDownloadModel(args.model.val, cat.result.val, args.prefer_quantized)
    /\ IF res'.result.ok THEN Step("out_dir") ELSE Fail(res'.outcome, res'.result.err)
    /\ UNCHANGED <<now, cache, cat, calls, args, base_name, said, pureVars>>

\* else { let picked = pick_model_interactive(..)?; resolve_or_download_model(&picked, ..)? }
\* sel = 0 stands for a prompt that fails (no terminal, Esc).
PickAndResolveModel ==
    /\ pc = "list_or_model"
    /\ ~args.list_models
    /\ ~args.model.some
    /\ IF cat.result.val = << >>
       THEN /\ Fail("empty", "NoModels")
            /\ UNCHANGED <<fs, res>>
       ELSE \E sel \in 0..Len(cat.result.val) :
               IF sel = 0
               THEN /\ Fail("prompt_failed", "PromptFailed")
                    /\ UNCHANGED <<fs, res>>
               ELSE /\ ResolveOrDownloadModel(cat.result.val[sel].rfilename,
                                              cat.result.val, args.prefer_quantized)
                    /\ IF res'.result.ok THEN Step("out_dir")
                       ELSE Fail(res'.outcome, res'.result.err)
    /\ UNCHANGED <<now, cache, cat, calls, args, base_name, said, pureVars>>

\* create_dir_all(&out_dir)?; let input = args.url.clone().ok_or_else(..)?;
OutDir ==
    /\ pc = "out_dir"
    /\ \E made \in BOOLEAN :
          IF ~made
          THEN fs' = fs /\ Fail("mkdir_failed", "CreateDirFailed")
          ELSE /\ fs' = [fs EXCEPT !.dirs = @ \cup {MkPath("out", << >>)}]
               /\ IF args.url.some THEN Step("classify") ELSE Fail("no_input", "NoInput")
    /\ UNCHANGED <<now, cache, cat, res, calls, args, base_name, said, pureVars>>

\* Variant: every input is sent down the download branch.
ClassifyInputAlwaysRemote ==
    /\ pc = "classify"
    /\ Step("ensure_ytdlp")
    /\ UNCHANGED <<envVars, cat, res, calls, args, base_name, said, pureVars>>

\* if is_probable_url(&input) { ... } else { ... }
ClassifyInput ==
    /\ pc = "classify"
    /\ IF Classify(args.url.val) = "RemoteLocator" THEN Step("ensure_ytdlp")
       ELSE Step("locate_input")
    /\ UNCHANGED <<envVars, cat, res, calls, args, base_name, said, pureVars>>

Wav == <<"w", "a", "v">>

Txt == <<"t", "x", "t">>

\* The title yt-dlp gives the file it produces.
Title == <<"t", "i", "t", "l", "e">>

\* ensure_in_path(yt-dlp)?; let temp = tempdir()?;
EnsureYtDlp ==
    /\ pc = "ensure_ytdlp"
    /\ \E o \in {"ok", "not_found", "tempdir_failed"} :
          IF o = "ok" THEN Step("yt-dlp")
          ELSE Fail(o, IF o = "not_found" THEN "MissingDependency" ELSE "TempDirFailed")
    /\ UNCHANGED <<envVars, cat, res, calls, args, base_name, said, pureVars>>

\* Variant: the exit status of yt-dlp is not looked at.
YtDlpIgnoresExit ==
    /\ pc = "yt-dlp"
    /\ \E o \in ToolOutcomes :
          IF o = "spawn_failed"
          THEN fs' = fs /\ Fail(o, "ExternalToolFailure")
          ELSE /\ \E produced \in BOOLEAN :
                    fs' = IF produced
                          THEN [fs EXCEPT !.files = @ \cup {WithExt("tmp", Title, Wav)}]
                          ELSE fs
               /\ pc' = "collect_wav"
               /\ log' = Append(log, [stage |-> pc, outcome |-> IF o = "exit_ok" THEN "ok" ELSE o])
               /\ result' = result
    /\ UNCHANGED <<now, cache, cat, res, calls, args, base_name, said, pureVars>>

\* let status = run_cmd(yt-dlp ...)?; if !status.success() { return Err(..) }
\* A yt-dlp that exits with success may or may not have produced a WAV file.
YtDlp ==
    /\ pc = "yt-dlp"
    /\ \E o \in ToolOutcomes :
          IF o # "exit_ok"
          THEN fs' = fs /\ Fail(o, "ExternalToolFailure")
          ELSE /\ \E produced \in BOOLEAN :
                    fs' = IF produced
                          THEN [fs EXCEPT !.files = @ \cup {WithExt("tmp", Title, Wav)}]
                          ELSE fs
               /\ Step("collect_wav")
    /\ UNCHANGED <<now, cache, cat, res, calls, args, base_name, said, pureVars>>

\* find_first_with_ext(dir, ext): the files of dir whose extension equals ext,
\* ASCII case ignored.
FilesWithExt(d, ext) ==
    { p \in fs.files :
        /\ p.dir = d
        /\ Extension(p.name).some
        /\ ToLower(Extension(p.name).val) = ToLower(ext) }

\* build_basename_from_wav(wav_path)
BuildBasenameFromWav(p) == Sanitize(FileStem(p.name))

\* find_first_with_ext(temp_path, wav)?.ok_or_else(..)?; base_name = ..;
\* fs::rename(..).or_else(copy + remove).with_context(..)?;
CollectWav ==
    /\ pc = "collect_wav"
    /\ IF FilesWithExt("tmp", Wav) = {}
       THEN /\ Fail("no_wav", "NoWavProduced")
            /\ UNCHANGED <<fs, base_name>>
       ELSE \E wav_path \in FilesWithExt("tmp", Wav) : \E moved \in BOOLEAN :
               /\ base_name' = BuildBasenameFromWav(wav_path)
               /\ IF moved
                  THEN /\ fs' = [fs EXCEPT !.files =
                                    (@ \ {wav_path}) \cup {WithExt("out", base_name', Wav)}]
                       /\ Step("whisper-cli")
                  ELSE /\ fs' = fs
                       /\ Fail("move_failed", "MoveFailed")
    /\ UNCHANGED <<now, cache, cat, res, calls, args, said, pureVars>>

\* The set of paths that exist, as Path::exists sees it.
Existing == fs.files \cup fs.dirs

\* base_name = input_path.file_stem()...filter(|s| !s.is_empty()).unwrap_or(audio)
LocalBaseName(p) ==
    IF FileStem(p.name) = << >> THEN <<"a", "u", "d", "i", "o">> ELSE FileStem(p.name)

\* The local branch up to ffmpeg: candidate, extension inference, is_file, base name.
LocateInput ==
    /\ pc = "locate_input"
    /\ LET candidate == Join("cwd", args.url.val)
           found == TryInferWithExts(candidate, Existing)
       IN  IF ~Exists(candidate) /\ ~found.some
           THEN Fail("not_found", "InputNotFound") /\ base_name' = base_name
           ELSE LET input_path == IF Exists(candidate) THEN candidate ELSE found.val
                IN  IF ~IsFile(input_path)
                    THEN Fail("not_a_file", "InputNotFile") /\ base_name' = base_name
                    ELSE Step("ffmpeg") /\ base_name' = LocalBaseName(input_path)
    /\ UNCHANGED <<envVars, cat, res, calls, args, said, pureVars>>

\* let status = run_cmd(ffmpeg -y -i input ... final_wav)?; if !status.success() { Err }
Ffmpeg ==
    /\ pc = "ffmpeg"
    /\ \E o \in ToolOutcomes :
          IF o # "exit_ok"
          THEN fs' = fs /\ Fail(o, "ExternalToolFailure")
          ELSE /\ fs' = [fs EXCEPT !.files = @ \cup {WithExt("out", base_name, Wav)}]
               /\ Step("whisper-cli")
    /\ UNCHANGED <<now, cache, cat, res, calls, args, base_name, said, pureVars>>

\* Variant: the exit status of whisper-cli is not looked at.
WhisperCliIgnoresExit ==
    /\ pc = "whisper-cli"
    /\ \E o \in ToolOutcomes :
          IF o = "spawn_failed"
          THEN fs' = fs /\ Fail(o, "ExternalToolFailure")
          ELSE /\ \E wrote \in BOOLEAN :
                    fs' = IF wrote
                          THEN [fs EXCEPT !.files = @ \cup {WithExt("out", base_name, Txt)}]
                          ELSE fs
               /\ pc' = "report"
               /\ log' = Append(log, [stage |-> pc, outcome |-> IF o = "exit_ok" THEN "ok" ELSE o])
               /\ result' = result
    /\ UNCHANGED <<now, cache, cat, res, calls, args, base_name, said, pureVars>>

\* let status = run_cmd(&mut whisper, verbose)?; if !status.success() { Err }
\* A whisper-cli that exits with success may or may not have written the transcript.
WhisperCli ==
    /\ pc = "whisper-cli"
    /\ \E o \in ToolOutcomes :
          IF o # "exit_ok"
          THEN fs' = fs /\ Fail(o, "ExternalToolFailure")
          ELSE /\ \E wrote \in BOOLEAN :
                    fs' = IF wrote
                          THEN [fs EXCEPT !.files = @ \cup {WithExt("out", base_name, Txt)}]
                          ELSE fs
               /\ Step("report")
    /\ UNCHANGED <<now, cache, cat, res, calls, args, base_name, said, pureVars>>

\* let transcript_txt = out_dir.join(format!({base_name}.txt))
TranscriptTxt == WithExt("out", base_name, Txt)

\* if transcript_txt.exists() { Done! } else { warning }; Ok(())
Report ==
    /\ pc = "report"
    /\ said' = IF Exists(TranscriptTxt) THEN "done" ELSE "warning"
    /\ Finish
    /\ UNCHANGED <<envVars, cat, res, calls, args, base_name, pureVars>>

(***************************************************************************)
(* Specification of a run                                                   *)
(***************************************************************************)

ClipMp4 == WithExt("cwd", <<"c", "l", "i", "p">>, <<"m", "p", "4">>)

ClipDir == MkPath("cwd", <<"c", "l", "i", "p">>)

CustomModel == MkPath("root", <<"m", ".", "b", "i", "n">>)

\* --model: absent (interactive pick), an alias, an existing-path candidate, a
\* string that matches nothing.
ModelArgs ==
    { None, Some(<<"b", "a", "s", "e">>), Some(<<"/", "m", ".", "b", "i", "n">>),
      Some(<<"n", "o", "p", "e">>) }

\* The positional argument: a bare domain with a path, and a local name.
UrlArgs == { <<"y", "o", "u", "t", "u", ".", "b", "e", "/", "x">>, <<"c", "l", "i", "p">> }

\* Args::parse(): url is required unless --list-models is given.
ArgsSet ==
    { [refresh_models |-> r, prefer_quantized |-> q, list_models |-> FALSE,
       model |-> m, url |-> Some(u)] :
         r \in BOOLEAN, q \in BOOLEAN, m \in ModelArgs, u \in UrlArgs }
    \cup
    { [refresh_models |-> r, prefer_quantized |-> q, list_models |-> TRUE,
       model |-> None, url |-> None] : r \in BOOLEAN, q \in BOOLEAN }

NoCls == [input |-> << >>, done |-> FALSE, verdict |-> "none"]

NoSrt ==
    [input |-> << >>, other |-> << >>, pq |-> FALSE, alias |-> << >>, done |-> FALSE,
     out |-> << >>, outOther |-> << >>, viaCache |-> None, pick |-> None]

NoInf == [files |-> {}, candidate |-> MkPath("cwd", << >>), done |-> FALSE, result |-> None]

NoArgs ==
    [refresh_models |-> FALSE, prefer_quantized |-> FALSE, list_models |-> FALSE,
     model |-> None, url |-> None]

\* The cache file a run can find: none, within the window, older, unparsable.
RunCaches ==
    { None, CacheFile(0, Some(ListingB)), CacheFile(2 * Hour, Some(ListingB)),
      CacheFile(2 * Hour, None) }

Init ==
    /\ now = 25 * Hour
    /\ cache \in RunCaches
    /\ \E f \in SUBSET {ClipMp4, CustomModel, MkPath("models", NameBase)} :
       \E d \in SUBSET {ClipDir} :
          fs = [files |-> f, dirs |-> d, partial |-> {}]
    /\ cat = NoCat
    /\ res = NoRes
    /\ srt = NoSrt
    /\ hist = << >>
    /\ calls = 0
    /\ pc = "ensure_ffmpeg"
    /\ args \in ArgsSet
    /\ base_name = << >>
    /\ log = << >>
    /\ result = Err("none")
    /\ said = "none"
    /\ cls = NoCls
    /\ inf = NoInf

Next ==
    \/ EnsureFfmpeg
    \/ EnsureWhisperCli
    \/ ModelsDir
    \/ FetchCatalog
    \/ ListModels
    \/ ResolveGivenModel
    \/ PickAndResolveModel
    \/ OutDir
    \/ ClassifyInput
    \/ EnsureYtDlp
    \/ YtDlp
    \/ CollectWav
    \/ LocateInput
    \/ Ffmpeg
    \/ WhisperCli
    \/ Report

Spec == Init /\ [][Next]_vars

(***************************************************************************)
(* Specification of the catalog cache alone: calls of fetch_hf_files_cached *)
(* as the clock advances                                                    *)
(***************************************************************************)

MaxCalls == 2

\* The cache file before the first call: none, just written, unparsable, or
\* with a modification time ahead of the clock.
FirstCaches ==
    { None, CacheFile(0, Some(ListingB)), CacheFile(0, None),
      CacheFile(25 * Hour, Some(ListingB)) }

InitCatalog ==
    /\ now = 0
    /\ cache \in FirstCaches
    /\ fs = [files |-> {}, dirs |-> {}, partial |-> {}]
    /\ cat = NoCat
    /\ res = NoRes
    /\ srt = NoSrt
    /\ hist = << >>
    /\ calls = 0
    /\ pc = "off"
    /\ args = NoArgs
    /\ base_name = << >>
    /\ log = << >>
    /\ result = Err("none")
    /\ said = "none"
    /\ cls = NoCls
    /\ inf = NoInf

\* One call of get_catalog, with either value of each flag.
CatalogCall ==
    /\ calls < MaxCalls
    /\ calls' = calls + 1
    /\ \E refresh \in BOOLEAN, prefer_quantized \in BOOLEAN :
          FetchHfFilesCached(refresh, prefer_quantized)
    /\ UNCHANGED <<now, fs, res, runVars, pureVars>>

\* Time passes between two calls.
Tick ==
    /\ \E t \in Instants : t > now /\ now' = t
    /\ UNCHANGED <<cache, fs, cat, res, calls, runVars, pureVars>>

NextCatalog == CatalogCall \/ Tick

SpecCatalog == InitCatalog /\ [][NextCatalog]_vars

(***************************************************************************)
(* Specification of the classifier alone                                    *)
(***************************************************************************)

\* How many characters of noise are put between a prefix and a body.
MaxNoise == 1

NoiseChars == {".", "/", "a", "1", " "}

RECURSIVE StringsUpTo(_)
StringsUpTo(n) ==
    IF n = 0 THEN { << >> }
    ELSE LET shorter == StringsUpTo(n - 1)
         IN  shorter \cup { <<c>> \o s : c \in NoiseChars, s \in { x \in shorter : Len(x) = n - 1 } }

\* What an input may start with: the local-path shapes, the schemes in several
\* cases, the protocol-relative prefix, near misses, blanks, nothing.
Prefixes ==
    { << >>, <<" ">>,
      <<".", "/">>, <<".", ".", "/">>, <<".", "\\">>, <<".", ".", "\\">>,
      <<"~", "/">>, <<"/">>, <<"/", "/">>, <<"\\", "\\">>,
      <<"C", ":", "\\">>, <<"d", ":", "/">>, <<"1", ":", "/">>, <<"C", ":">>,
      <<"f", "i", "l", "e", ":", "/", "/">>, <<"F", "i", "L", "E", ":", "/", "/">>,
      <<"h", "t", "t", "p", ":", "/", "/">>, <<"H", "T", "T", "P", "S", ":", "/", "/">>,
      <<"f", "t", "p", ":", "/", "/">>, <<"~">>, <<"\\">> }

\* What follows: the examples of the documentation and some relatives.
Bodies ==
    { << >>,
      <<"e", "x", "a", "m", "p", "l", "e", ".", "c", "o", "m">>,
      <<"e", "x", "a", "m", "p", "l", "e", ".", "c", "o", "m", "/", "v", "i", "d", "e", "o">>,
      <<"w", "w", "w", ".", "e", "x", "a", "m", "p", "l", "e", ".", "c", "o", ".", "u", "k",
        "/", "p", "a", "t", "h", "?", "x", "=", "1">>,
      <<"y", "o", "u", "t", "u", ".", "b", "e", "/", "x", "y", "z">>,
      <<"r", "e", "p", "o", "r", "t", ".", "v", "1">>,
      <<"D", "3", ".", "3">>,
      <<"f", "i", "l", "e", ".", "t", "x", "t">>,
      <<"c", "l", "i", "p", ".", "m", "p", "4">>,
      <<"c", "l", "i", "p">>,
      <<"a", ".", "b", "/", "c", " ", "d">>,
      <<"x", ".", "y">> }

ClsInputs ==
    { p \o n \o b : p \in Prefixes, n \in StringsUpTo(MaxNoise), b \in Bodies }

InitClassify ==
    /\ now = 0
    /\ cache = None
    /\ fs = [files |-> {}, dirs |-> {}, partial |-> {}]
    /\ cat = NoCat
    /\ res = NoRes
    /\ srt = NoSrt
    /\ hist = << >>
    /\ calls = 0
    /\ pc = "off"
    /\ args = NoArgs
    /\ base_name = << >>
    /\ log = << >>
    /\ result = Err("none")
    /\ said = "none"
    /\ cls \in { [input |-> s, done |-> FALSE, verdict |-> "none"] : s \in ClsInputs }
    /\ inf = NoInf

\* classify(input)
ClassifyStep ==
    /\ ~cls.done
    /\ cls' = [cls EXCEPT !.done = TRUE, !.verdict = Classify(cls.input)]
    /\ UNCHANGED <<envVars, cat, res, calls, runVars, inf, srt, hist>>

NextClassify == ClassifyStep

SpecClassify == InitClassify /\ [][NextClassify]_vars

(***************************************************************************)
(* Specification of extension inference alone                               *)
(***************************************************************************)

\* At most this many of the files below exist at once.
MaxFiles == 3

Clip == <<"c", "l", "i", "p">>

\* The files that may exist in the directory: the bare name, the name with each
\* of the media extensions, and names close to them.
InferUniverse ==
    { MkPath("cwd", Clip) }
    \cup { WithExt("cwd", Clip, Exts[i]) : i \in DOMAIN Exts }
    \cup { WithExt("cwd", Clip, Txt),
           WithExt("cwd", Clip, <<"M", "P", "4">>),
           WithExt("cwd", <<".">> \o Clip, <<"m", "p", "4">>),
           WithExt("cwd", Clip \o <<".">>, <<"m", "p", "4">>),
           WithExt("root", Clip, <<"m", "p", "4">>) }

InferCandidates ==
    { MkPath("cwd", Clip),
      WithExt("cwd", Clip, <<"m", "p", "4">>),
      WithExt("cwd", Clip, <<"m", "k", "v">>),
      MkPath("cwd", <<"m", "i", "s", "s", "i", "n", "g">>),
      MkPath("cwd", <<".">> \o Clip),
      MkPath("cwd", Clip \o <<".">>),
      MkPath("cwd", <<".", ".">>) }

InitInfer ==
    /\ now = 0
    /\ cache = None
    /\ fs = [files |-> {}, dirs |-> {}, partial |-> {}]
    /\ cat = NoCat
    /\ res = NoRes
    /\ srt = NoSrt
    /\ hist = << >>
    /\ calls = 0
    /\ pc = "off"
    /\ args = NoArgs
    /\ base_name = << >>
    /\ log = << >>
    /\ result = Err("none")
    /\ said = "none"
    /\ cls = NoCls
    /\ \E f \in SUBSET InferUniverse : \E c \in InferCandidates :
          /\ Cardinality(f) <= MaxFiles
          /\ inf = [files |-> f, candidate |-> c, done |-> FALSE, result |-> None]

\* infer_with_extension(candidate)
InferStep ==
    /\ ~inf.done
    /\ inf' = [inf EXCEPT !.done = TRUE,
                          !.result = TryInferWithExts(inf.candidate, inf.files)]
    /\ UNCHANGED <<envVars, cat, res, calls, runVars, cls, srt, hist>>

NextInfer == InferStep

SpecInfer == InitInfer /\ [][NextInfer]_vars

(***************************************************************************)
(* filter_and_sort_files and the alias match, applied to bounded listings   *)
(***************************************************************************)

MaxList == 2

NameBaseCaps == GGML \o <<"B", "a", "s", "e">> \o DotBin

NameUpperSuffix == GGML \o <<"t", "i", "n", "y", ".", "B", "I", "N">>

NameTwoLines == GGML \o <<"a", "\n", "b">> \o DotBin

\* The descriptors a listing is made of: plain, quantized, other suffix, not a
\* model, a name differing from another in letter case only, a suffix in upper
\* case, and a name with a line break in it.
SortPool ==
    { HfFile(NameBase, Some(3)), HfFile(NameBaseQ5, Some(1)), HfFile(NameNotes, None),
      HfFile(NameLarge, Some(9)), HfFile(NameBaseCaps, Some(4)),
      HfFile(NameUpperSuffix, Some(2)), HfFile(NameTwoLines, Some(5)) }

RECURSIVE ListsUpTo(_)
ListsUpTo(n) ==
    IF n = 0 THEN { << >> }
    ELSE LET shorter == ListsUpTo(n - 1)
         IN  shorter \cup { <<d>> \o s : d \in SortPool, s \in { x \in shorter : Len(x) = n - 1 } }

\* A longer listing with two names that differ in letter case only.
ListingCase ==
    <<HfFile(NameBaseCaps, Some(4)), HfFile(NameBaseQ5, Some(1)), HfFile(NameBase, Some(3))>>

\* The listings handed to filter_and_sort_files: the parsed siblings of a remote
\* answer or of the cache file, in any order and with repetitions.
SortInputs == ListsUpTo(MaxList) \cup { ListingA, ListingCase }

\* The same descriptors in every order of arrival.
Rearrangements(s) ==
    LET n == Len(s)
        bij == { p \in [1..n -> 1..n] : \A i, j \in 1..n : p[i] = p[j] => i = j }
    IN  { [i \in 1..n |-> s[p[i]]] : p \in bij }

\* The aliases asked for: one matching several entries, one in upper case, and
\* one that no model name contains.
SortAliases == { <<"b", "a", "s", "e">>, <<"L", "A", "R", "G", "E">>, <<"x">> }

InitSort ==
    /\ now = 0
    /\ cache = None
    /\ fs = [files |-> {}, dirs |-> {}, partial |-> {}]
    /\ cat = NoCat
    /\ res = NoRes
    /\ hist = << >>
    /\ calls = 0
    /\ pc = "off"
    /\ args = NoArgs
    /\ base_name = << >>
    /\ log = << >>
    /\ result = Err("none")
    /\ said = "none"
    /\ cls = NoCls
    /\ inf = NoInf
    /\ \E l \in SortInputs : srt = [NoSrt EXCEPT !.input = l]

\* filter_and_sort_files on the listing as fetched, on the listing read back
\* from a fresh cache file, and on the same listing in another order; then the
\* alias match of resolve_or_download_model on the catalog.
SortStep ==
    /\ ~srt.done
    /\ \E pq \in BOOLEAN, alias \in SortAliases, other \in Rearrangements(srt.input) :
          LET out == FilterAndSortFiles(srt.input, pq)
          IN  srt' = [input |-> srt.input, other |-> other, pq |-> pq, alias |-> alias,
                      done |-> TRUE, out |-> out,
                      outOther |-> FilterAndSortFiles(other, pq),
                      viaCache |-> CacheLookup(CacheFile(0, Some(srt.input)), 0, FALSE, pq),
                      pick |-> BestMatch(alias, out, pq)]
    /\ UNCHANGED <<envVars, cat, res, calls, runVars, cls, inf, hist>>

NextSort == SortStep

SpecSort == InitSort /\ [][NextSort]_vars

(***************************************************************************)
(* resolve_or_download_model, called again and again on one file system     *)
(***************************************************************************)

MaxResolveCalls == 2

AliasBase == <<"b", "a", "s", "e">>

\* What the user may pass as the model: an alias matching several entries, a
\* full file name, an absolute path, a name nothing matches, and an alias in
\* upper case.
ResolveInputs ==
    { AliasBase, NameBase, <<"/", "m", ".", "b", "i", "n">>, <<"n", "o", "p", "e">>,
      <<"L", "A", "R", "G", "E">> }

\* The files that may be there before the first call: one named like the alias
\* in the working directory, one in the models directory, a model downloaded
\* earlier, and a model file given by its absolute path.
ResolveFiles ==
    { PathFrom(AliasBase), MkPath("models", AliasBase), MkPath("models", NameBase),
      CustomModel }

\* The catalog is the one fetch_hf_files_cached returned, made with the flag
\* that resolve_or_download_model is then given.
InitResolve ==
    /\ now = 0
    /\ cache = None
    /\ \E f \in SUBSET ResolveFiles : fs = [files |-> f, dirs |-> {}, partial |-> {}]
    /\ \E l \in Listings, pq \in BOOLEAN :
          cat = CatCall(FALSE, pq, None, 0, 1, "ok", "ok", Ok(FilterAndSortFiles(l, pq)))
    /\ res = NoRes
    /\ srt = NoSrt
    /\ hist = << >>
    /\ calls = 0
    /\ pc = "off"
    /\ args = NoArgs
    /\ base_name = << >>
    /\ log = << >>
    /\ result = Err("none")
    /\ said = "none"
    /\ cls = NoCls
    /\ inf = NoInf

\* One call of resolve_or_download_model; hist keeps the call with the file
\* system before and after it, and the entry its alias match selects.
ResolveCall ==
    /\ Len(hist) < MaxResolveCalls
    /\ \E user_input \in ResolveInputs :
          ResolveOrDownloadModel(user_input, cat.result.val, cat.pq)
    /\ hist' = Append(hist, [call |-> res', before |-> fs, after |-> fs',
                             picked |-> BestMatch(res'.input, cat.result.val, cat.pq)])
    /\ UNCHANGED <<now, cache, cat, calls, runVars, cls, inf, srt>>

NextResolve == ResolveCall

SpecResolve == InitResolve /\ [][NextResolve]_vars

(***************************************************************************)
(* Properties                                                               *)
(***************************************************************************)

\* The last catalog call found a cache file that parses.
CatReqParses == cat.called /\ cat.req.some /\ cat.req.val.content.some

\* How old the cache file was when the last catalog call was made.
CatReqAge == cat.at - cat.req.val.mtime

\* C1: with force_refresh = false and a cache file that parses, a call made less
\* than 24 hours after the file's modification time returns the filtered and
\* sorted cache content without any network fetch, and a call made 24 hours or
\* more after it performs a network fetch.
C1_CacheFreshWindow ==
    (CatReqParses /\ ~cat.refresh) =>
        /\ (CatReqAge >= 0 /\ CatReqAge < 24 * 3600) =>
              /\ cat.fetches = 0
              /\ cat.result = Ok(FilterAndSortFiles(cat.req.val.content.val, cat.pq))
        /\ (CatReqAge >= 24 * 3600) => cat.fetches >= 1

\* A call one second inside the window was served from the cache.
C1_Witness ==
    /\ CatReqParses
    /\ ~cat.refresh
    /\ CatReqAge = 24 * 3600 - 1
    /\ cat.fetches = 0
    /\ cat.result.ok

\* C2: when get_catalog goes to the network and the fetch fails (transport
\* error, non-success status, unparsable body), it fails: it does not return
\* the cache content, even if a cache file exists, and it fetched only once.
C2_FetchFailurePropagates ==
    (cat.called /\ cat.net \in {"transport_error", "http_status", "bad_json"}) =>
        /\ ~cat.result.ok
        /\ cat.fetches = 1

\* The fetch failed with an HTTP status while a parsable cache file existed.
C2_Witness ==
    /\ CatReqParses
    /\ cat.net = "http_status"
    /\ ~cat.result.ok

\* C3: after a successful network fetch, a failure to persist the listing to
\* the cache file does not fail get_catalog: the filtered and sorted catalog
\* is still returned.
C3_PersistFailureTolerated ==
    (cat.called /\ cat.net = "ok" /\ cat.persist \in PersistOutcomes \ {"ok"}) =>
        cat.result.ok

\* C4: when the model identifier is an existing path, a finished run has
\* resolved the model to that path even if the catalog was unavailable.
C4_ExistingPathBypassesCatalog ==
    ( /\ pc = "done"
      /\ ~args.list_models
      /\ args.model.some
      /\ Exists(PathFrom(args.model.val))
      /\ cat.called
      /\ ~cat.result.ok )
    => res.result = Ok(PathFrom(args.model.val))

\* The transcription tool was run and exited with success.
WhisperSucceeded ==
    \E i \in 1..Len(log) : log[i] = [stage |-> "whisper-cli", outcome |-> "ok"]

\* C5 as stated: a run that transcribes ends in success only if whisper-cli
\* exited with success and the transcript file exists afterwards.
C5_SuccessNeedsTranscript ==
    (pc = "done" /\ result.ok /\ ~args.list_models) =>
        WhisperSucceeded /\ Exists(TranscriptTxt)

\* C5 as amended: a run that transcribes ends in success only if whisper-cli
\* exited with success; it then reports Done exactly when the transcript file
\* exists, and prints a warning (still ending in success) when it is missing.
C5_SuccessNeedsToolSuccess ==
    (pc = "done" /\ result.ok /\ ~args.list_models) =>
        /\ WhisperSucceeded
        /\ \A i \in 1..Len(log) : log[i].outcome = "ok"
        /\ said = (IF Exists(TranscriptTxt) THEN "done" ELSE "warning")

\* A run ended in success with the warning: the tool succeeded, no transcript.
C5_Witness ==
    /\ pc = "done"
    /\ result.ok
    /\ WhisperSucceeded
    /\ ~Exists(TranscriptTxt)
    /\ said = "warning"

\* C6: a failure at any stage ends the run with an error at once: the failed
\* statement is the last one executed, so no later stage (the transcription
\* tool in particular) is started, and nothing is tried twice.
C6_FailureIsTerminal ==
    /\ \A i \in 1..Len(log) :
          log[i].outcome # "ok" => (i = Len(log) /\ pc = "done" /\ ~result.ok)
    /\ \A i, j \in 1..Len(log) : i # j => log[i].stage # log[j].stage
    /\ cat.fetches <= 1
    /\ res.downloads <= 1

\* The download tool exited with a failure status after the model was resolved.
C6_Witness ==
    /\ pc = "done"
    /\ ~result.ok
    /\ res.result.ok
    /\ log[Len(log)] = [stage |-> "yt-dlp", outcome |-> "exit_nonzero"]

\* The local-path shapes, read off the input as given.
HasLocalPrefix(s) ==
    \/ \E p \in { <<".", "/">>, <<".", ".", "/">>, <<".", "\\">>, <<".", ".", "\\">>,
                  <<"~", "/">>, <<"/">>, <<"\\", "\\">> } : StartsWith(s, p)
    \/ /\ Len(s) >= 3
       /\ s[1] \in Range(LowerLetters) \cup Range(UpperLetters)
       /\ s[2] = ":"
       /\ s[3] \in {"\\", "/"}
    \/ /\ Len(s) >= 7
       /\ s[1] \in {"f", "F"} /\ s[2] \in {"i", "I"} /\ s[3] \in {"l", "L"}
       /\ s[4] \in {"e", "E"} /\ s[5] = ":" /\ s[6] = "/" /\ s[7] = "/"

C8_ProtocolRelativeIsRemote ==
    (cls.done /\ StartsWith(Trim(cls.input), <<"/", "/">>)) =>
        cls.verdict = "RemoteLocator"

\* C9: example.com, www.example.co.uk/path?x=1 and youtu.be/xyz are classified
\* RemoteLocator; report.v1, D3.3 and file.txt are classified LocalPath.
C9_BareDomainExamples ==
    cls.done =>
        /\ cls.input \in
              { <<"e", "x", "a", "m", "p", "l", "e", ".", "c", "o", "m">>,
                <<"w", "w", "w", ".", "e", "x", "a", "m", "p", "l", "e", ".", "c", "o", ".",
                  "u", "k", "/", "p", "a", "t", "h", "?", "x", "=", "1">>,
                <<"y", "o", "u", "t", "u", ".", "b", "e", "/", "x", "y", "z">> }
              => cls.verdict = "RemoteLocator"
        /\ cls.input \in
              { <<"r", "e", "p", "o", "r", "t", ".", "v", "1">>,
                <<"D", "3", ".", "3">>,
                <<"f", "i", "l", "e", ".", "t", "x", "t">> }
              => cls.verdict = "LocalPath"

\* The extension order the documentation gives.
DocumentedExts ==
    << <<"m", "p", "4">>, <<"m", "k", "v">>, <<"w", "e", "b", "m">>, <<"m", "o", "v">>,
       <<"m", "4", "a">>, <<"m", "p", "3">>, <<"w", "a", "v">>, <<"f", "l", "a", "c">>,
       <<"a", "v", "i">>, <<"m", "4", "v">>, <<"a", "a", "c">>, <<"o", "p", "u", "s">> >>

\* The positions of the documented extensions whose file exists beside the candidate.
InferHits ==
    { i \in DOMAIN DocumentedExts :
        MkPath(inf.candidate.dir, inf.candidate.name \o <<".">> \o DocumentedExts[i])
            \in inf.files }

\* C10: a candidate that exists is returned unchanged; for a candidate that
\* does not exist and whose final segment has no dot, the result is
\* parent/stem.ext for the first extension of the documented order whose file
\* exists, and none when no such file exists.
C10_FirstExistingExtension ==
    inf.done =>
        /\ inf.candidate \in inf.files => inf.result = Some(inf.candidate)
        /\ (inf.candidate \notin inf.files /\ ~Contains(inf.candidate.name, <<".">>)) =>
              IF InferHits = {} THEN inf.result = None
              ELSE LET first == CHOOSE i \in InferHits : \A j \in InferHits : i <= j
                   IN  inf.result =
                          Some(MkPath(inf.candidate.dir,
                                      inf.candidate.name \o <<".">> \o DocumentedExts[first]))

\* The candidate was missing, two of its extensions existed, the earlier one won.
C10_Witness ==
    /\ inf.done
    /\ inf.candidate = MkPath("cwd", Clip)
    /\ inf.candidate \notin inf.files
    /\ Cardinality(InferHits) >= 2
    /\ inf.result.some
    /\ inf.result.val \in inf.files

\* C11 as stated: a candidate that does not exist and whose final segment
\* contains a dot anywhere (a leading dot included) yields none.
C11_AnyDotYieldsNone ==
    (inf.done /\ inf.candidate \notin inf.files /\ Contains(inf.candidate.name, <<".">>)) =>
        inf.result = None

\* C11 as amended: a candidate that does not exist and whose final segment has
\* a dot after its first character (a trailing dot included) yields none: no
\* media extension is appended to it.
C11_ExtensionYieldsNone ==
    ( /\ inf.done
      /\ inf.candidate \notin inf.files
      /\ \E i \in 2..Len(inf.candidate.name) : inf.candidate.name[i] = "." )
    => inf.result = None

\* The candidate ended in a dot, the file named candidate + .mp4 existed, and
\* the result was none.
C11_Witness ==
    /\ inf.done
    /\ inf.candidate = MkPath("cwd", Clip \o <<".">>)
    /\ WithExt("cwd", Clip \o <<".">>, <<"m", "p", "4">>) \in inf.files
    /\ inf.result = None

\* How often the descriptor d occurs in the listing s.
Occurrences(s, d) == Cardinality({ i \in DOMAIN s : s[i] = d })

\* The name starts with ggml- and ends with .bin or .gguf, case-sensitively.
HasModelAffixes(n) ==
    StartsWith(n, GGML) /\ (EndsWith(n, DotBin) \/ EndsWith(n, DotGguf))

\* The entry's quantization status equals the preference asked for.
Preferred(f, pq) == IsQuantizedName(ToLower(f.rfilename)) = pq

\* The catalog is ordered: the preferred group first, and ascending lowercased
\* names within each group.
OrderedCatalog(out, pq) ==
    \A i, j \in DOMAIN out :
        i < j =>
            /\ ~(Preferred(out[j], pq) /\ ~Preferred(out[i], pq))
            /\ (Preferred(out[i], pq) = Preferred(out[j], pq)
                   => ~StrLess(ToLower(out[j].rfilename), ToLower(out[i].rfilename)))

\* The catalog holds the descriptors of the listing that Keep accepts, each as
\* often as the listing does, and nothing else.
KeepsExactly(input, out, Keep(_)) ==
    \A d \in Range(input) \cup Range(out) :
        Occurrences(out, d) = IF Keep(d.rfilename) THEN Occurrences(input, d) ELSE 0

\* C12 as stated: filter_and_sort_files returns exactly the input descriptors
\* whose name starts with ggml- and ends with .bin or .gguf, the preferred group
\* first and each group by ascending lowercased name, for cached and for fetched
\* data alike.
C12_AffixesDecide ==
    srt.done =>
        /\ KeepsExactly(srt.input, srt.out, HasModelAffixes)
        /\ OrderedCatalog(srt.out, srt.pq)
        /\ srt.viaCache = Some(srt.out)

\* The name has the affixes and no line break.
HasModelAffixesOnOneLine(n) == HasModelAffixes(n) /\ "\n" \notin Range(n)

\* C12 amended: filter_and_sort_files returns exactly the input descriptors
\* whose name starts with ggml-, ends with .bin or .gguf and holds no line
\* break, the preferred group first and each group by ascending lowercased
\* name; the listing read back from the cache gives the same catalog.
C12_FilterSortPolicy ==
    srt.done =>
        /\ KeepsExactly(srt.input, srt.out, HasModelAffixesOnOneLine)
        /\ OrderedCatalog(srt.out, srt.pq)
        /\ srt.viaCache = Some(srt.out)

C12_Witness ==
    /\ srt.done
    /\ srt.input = ListingA
    /\ srt.pq
    /\ srt.out = <<HfFile(NameBaseQ5, Some(1)), HfFile(NameBase, Some(3)),
                   HfFile(NameLarge, Some(9))>>

\* C16: every catalog returned by filter_and_sort_files has entries that are
\* pairwise distinct by name, whatever the listing.
C16_EntriesDistinctByName ==
    srt.done =>
        \A i, j \in DOMAIN srt.out : i # j => srt.out[i].rfilename # srt.out[j].rfilename

\* C17: the catalog returned by filter_and_sort_files depends on the set of
\* descriptors and on prefer_quantized only: two listings that are
\* rearrangements of each other give the same sequence.
C17_OrderIndependentOfArrival == srt.done => srt.out = srt.outOther

\* The positions of the catalog entries whose lowercased name contains the
\* lowercased alias.
AliasHits(out, alias) ==
    { i \in DOMAIN out : Contains(ToLower(out[i].rfilename), ToLower(alias)) }

\* C20: on a catalog made by filter_and_sort_files with some prefer_quantized,
\* the entry the resolver picks for an alias with the same flag is the first
\* entry, in catalog order, whose lowercased name contains the lowercased alias.
C20_PickIsFirstInCatalogOrder ==
    srt.done =>
        LET hits == AliasHits(srt.out, srt.alias)
        IN  IF hits = {} THEN srt.pick = None
            ELSE srt.pick = Some(srt.out[CHOOSE i \in hits : \A j \in hits : i <= j].rfilename)

C20_Witness ==
    /\ srt.done
    /\ Cardinality(AliasHits(srt.out, srt.alias)) >= 2
    /\ \E i, j \in AliasHits(srt.out, srt.alias) :
          Preferred(srt.out[i], srt.pq) /\ ~Preferred(srt.out[j], srt.pq)
    /\ srt.pick = Some(srt.out[1].rfilename)

\* The path exists in the file system f.
ExistsIn(f, p) == p \in f.files \cup f.dirs

\* The call h found neither the path user_input nor local_dir/user_input.
ReachedAliasStep(h) ==
    /\ ~ExistsIn(h.before, PathFrom(h.call.input))
    /\ ~ExistsIn(h.before, Join("models", h.call.input))

\* The key (preference_penalty, lowercased name) of a lies strictly below b's.
KeyBelow(a, b, pq) ==
    LET pa == IF Preferred(a, pq) THEN 0 ELSE 1
        pb == IF Preferred(b, pq) THEN 0 ELSE 1
    IN  pa < pb \/ (pa = pb /\ StrLess(ToLower(a.rfilename), ToLower(b.rfilename)))

\* C13: when user_input is neither an existing path nor an existing file under
\* local_dir, resolve selects among the catalog entries whose lowercased name
\* contains the lowercased user_input one that is minimal under (preference
\* penalty, lowercased name), and returns its place under local_dir when it
\* succeeds; when no entry contains the alias it fails with ModelNotFound and
\* nothing is downloaded.
C13_AliasPicksMinimalKey ==
    \A k \in DOMAIN hist :
        LET h == hist[k]
            files == cat.result.val
            hits == AliasHits(files, h.call.input)
        IN  ReachedAliasStep(h) =>
                IF hits = {}
                THEN /\ h.call.result = Err("ModelNotFound")
                     /\ h.call.downloads = 0
                     /\ h.after = h.before
                ELSE \E i \in hits :
                        /\ h.picked = Some(files[i].rfilename)
                        /\ \A j \in hits : ~KeyBelow(files[j], files[i], cat.pq)
                        /\ h.call.result.ok
                              => h.call.result.val = MkPath("models", files[i].rfilename)
                        /\ ~h.call.result.ok => h.call.result.err = "DownloadError"

C13_Witness ==
    /\ Len(hist) >= 1
    /\ cat.pq
    /\ ReachedAliasStep(hist[1])
    /\ hist[1].call.input = AliasBase
    /\ Cardinality(AliasHits(cat.result.val, AliasBase)) = 2
    /\ hist[1].call.downloads = 1
    /\ hist[1].call.result = Ok(MkPath("models", NameBaseQ5))

\* The call h downloaded nothing and left every file as it was.
NoDownloadNoChange(h) == h.call.downloads = 0 /\ h.after = h.before

\* C14: an existing path equal to user_input is returned as given, whatever
\* lies under local_dir and whatever the catalog holds; otherwise an existing
\* local_dir/user_input is returned, whatever the catalog holds; in both cases
\* nothing is downloaded and no file is created or changed.
C14_FirstSuccessWins ==
    \A k \in DOMAIN hist :
        LET h == hist[k]
            path == PathFrom(h.call.input)
            candidate == Join("models", h.call.input)
        IN  IF ExistsIn(h.before, path)
            THEN h.call.result = Ok(path) /\ NoDownloadNoChange(h)
            ELSE ExistsIn(h.before, candidate)
                    => h.call.result = Ok(candidate) /\ NoDownloadNoChange(h)

C14_Witness ==
    /\ Len(hist) >= 1
    /\ hist[1].call.input = AliasBase
    /\ ExistsIn(hist[1].before, PathFrom(AliasBase))
    /\ ExistsIn(hist[1].before, MkPath("models", AliasBase))
    /\ AliasHits(cat.result.val, AliasBase) # {}
    /\ hist[1].call.result = Ok(PathFrom(AliasBase))

\* The call h went through the download and wrote the whole file.
Downloaded(h) == h.call.downloads = 1 /\ h.call.outcome = "ok" /\ h.call.result.ok

\* C15: after a call that downloaded the file for an alias, every later call
\* for the same alias, on the same catalog and flag, downloads nothing, changes
\* nothing and returns the same path; and whenever the destination of the
\* download step exists already, nothing is transferred or overwritten.
C15_SecondResolveSkipsDownload ==
    /\ \A i, j \in DOMAIN hist :
          (i < j /\ hist[i].call.input = hist[j].call.input /\ Downloaded(hist[i]))
              => /\ NoDownloadNoChange(hist[j])
                 /\ hist[j].call.result = hist[i].call.result
    /\ \A k \in DOMAIN hist :
          LET h == hist[k]
          IN  (ReachedAliasStep(h) /\ h.picked.some
                  /\ ExistsIn(h.before, MkPath("models", h.picked.val)))
                 => /\ NoDownloadNoChange(h)
                    /\ h.call.result = Ok(MkPath("models", h.picked.val))

C15_Witness ==
    /\ Len(hist) = 2
    /\ hist[1].call.input = AliasBase
    /\ hist[2].call.input = AliasBase
    /\ Downloaded(hist[1])
    /\ hist[2].call.downloads = 0
    /\ hist[2].call.result = hist[1].call.result

\* The download of call h broke off after the destination file was created.
Interrupted(h) == h.call.outcome = "interrupted"

\* C19: a download that breaks off after the destination was created fails and
\* leaves the truncated file under local_dir; every later call for the same
\* alias, or for that file name, returns that path without downloading; and a
\* truncated file is never made whole by a later call.
C19_TruncatedFileIsKept ==
    /\ \A k \in DOMAIN hist :
          LET h == hist[k]
          IN  /\ Interrupted(h)
                    => /\ h.picked.some
                       /\ ~h.call.result.ok
                       /\ MkPath("models", h.picked.val) \in h.after.files
                       /\ MkPath("models", h.picked.val) \in h.after.partial
              /\ h.before.partial \subseteq h.after.partial
              /\ h.after.partial \subseteq h.after.files
    /\ \A i, j \in DOMAIN hist :
          (i < j /\ Interrupted(hist[i])
              /\ hist[j].call.input \in {hist[i].call.input, hist[i].picked.val})
             => /\ hist[j].call.result = Ok(MkPath("models", hist[i].picked.val))
                /\ NoDownloadNoChange(hist[j])

C19_Witness ==
    /\ Len(hist) = 2
    /\ Interrupted(hist[1])
    /\ hist[1].call.input = AliasBase
    /\ hist[2].call.input = NameBase
    /\ hist[2].call.result = Ok(MkPath("models", NameBase))
    /\ hist[2].call.downloads = 0
    /\ MkPath("models", NameBase) \in fs.partial

\* The positions of the log at which the stage was carried out.
StageAt(stage) == { i \in 1..Len(log) : log[i].stage = stage }

\* The tool was started: it is running now, or its outcome is in the log.
Invoked(tool) == pc = tool \/ StageAt(tool) # {}

\* The tool exited with success at some position of the log before position n.
SucceededBefore(tool, n) ==
    \E i \in StageAt(tool) : i < n /\ log[i].outcome = "ok"

\* yt-dlp and ffmpeg each run only on the branch chosen by the classification,
\* after it, and never both; whisper-cli runs only after the one of them that
\* ran has exited with success and the model path is resolved.
ToolsInOrder ==
    /\ ~(Invoked("yt-dlp") /\ Invoked("ffmpeg"))
    /\ Invoked("yt-dlp")
          => /\ args.url.some
             /\ Classify(args.url.val) = "RemoteLocator"
             /\ StageAt("classify") # {}
    /\ Invoked("ffmpeg")
          => /\ args.url.some
             /\ Classify(args.url.val) = "LocalPath"
             /\ StageAt("classify") # {}
    /\ \A t \in {"yt-dlp", "ffmpeg", "whisper-cli"} : Cardinality(StageAt(t)) <= 1
    /\ Invoked("whisper-cli")
          => /\ res.called /\ res.result.ok
             /\ LET n == IF pc = "whisper-cli" THEN Len(log) + 1
                         ELSE CHOOSE i \in StageAt("whisper-cli") : TRUE
                IN  SucceededBefore("yt-dlp", n) # SucceededBefore("ffmpeg", n)

\* C18 as stated: in every run exactly one of yt-dlp and ffmpeg is invoked,
\* yt-dlp only for a RemoteLocator and ffmpeg only for a LocalPath, after the
\* classification, and whisper-cli only after that tool exited with success and
\* the model path was resolved.
C18_ExactlyOneToolEveryRun ==
    /\ ToolsInOrder
    /\ pc = "done" => (Invoked("yt-dlp") # Invoked("ffmpeg"))

\* C18 amended: in every run at most one of yt-dlp and ffmpeg is invoked, and
\* exactly one in every run that gets to whisper-cli; yt-dlp only for a
\* RemoteLocator and ffmpeg only for a LocalPath, after the classification, and
\* whisper-cli only after that tool exited with success and the model path was
\* resolved. A run that ends before the branch invokes neither.
C18_ToolsInOrder ==
    /\ ToolsInOrder
    /\ Invoked("whisper-cli") => (Invoked("yt-dlp") # Invoked("ffmpeg"))

C18_Witness ==
    /\ pc = "done"
    /\ result.ok
    /\ args.url.some
    /\ Classify(args.url.val) = "LocalPath"
    /\ \E i \in StageAt("ffmpeg") : \E j \in StageAt("whisper-cli") :
          i < j /\ log[i].outcome = "ok" /\ log[j].outcome = "ok"
    /\ StageAt("yt-dlp") = {}

====
